---- MODULE Spec2Model ----
(***************************************************************************)
(* Model of propositions/operators.py: the five syntactic reducers         *)
(* to_not_and_or, to_not_and, to_nand, to_implies_not and                  *)
(* to_implies_false over immutable Formula trees.                          *)
(*                                                                         *)
(* A Formula is a record: [root] for a variable or a constant,             *)
(* [root, first] for a unary node and [root, first, second] for a binary   *)
(* node.  A raised ValueError is the record [raised, msg]; it propagates   *)
(* through every enclosing call exactly as a Python exception does.        *)
(***************************************************************************)
EXTENDS Integers, Sequences, FiniteSets, TLC

VARIABLES formula, called, result

vars == <<formula, called, result>>

\* Largest number of nodes of an input tree.
MaxNodes == 5

Variables == {"p", "q"}
Constants == {"T", "F"}
BinaryOps == {"&", "|", "->", "+", "<->", "-&", "-|"}
UnknownOps == {"^"}

is_variable(s) == s \in Variables
is_constant(s) == s \in Constants
is_unary(s) == s = "~"

Leaf(r) == [root |-> r]
Unary(r, f) == [root |-> r, first |-> f]
Binary(r, f, g) == [root |-> r, first |-> f, second |-> g]

ValueError(r) == [raised |-> "ValueError", msg |-> r]
IsRaised(x) == "raised" \in DOMAIN x

(***************************************************************************)
(* to_not_and_or                                                           *)
(***************************************************************************)
\* Variant: constants are left in place for the later passes.
ConstantKept(r) == Leaf(r)

\* Variant: the placeholder of T is written with '&'.
ConstantAsAnd(r) ==
    LET p == Leaf("p")
    IN  Binary("&", p, Unary("~", p))

ConstantToNotAndOr(r) ==
    LET p == Leaf("p")
    IN  IF r = "T" THEN Binary("|", p, Unary("~", p))
        ELSE Binary("&", p, Unary("~", p))

\* Variant: '-|' is left in place.
BinaryNorKept(r, a, b) ==
    IF r = "&" \/ r = "|" \/ r = "-|" THEN Binary(r, a, b)
    ELSE IF r = "->" THEN Binary("|", Unary("~", a), b)
    ELSE IF r = "+" THEN Binary("|", Binary("&", a, Unary("~", b)),
                                     Binary("&", Unary("~", a), b))
    ELSE IF r = "<->" THEN Binary("|", Binary("&", a, b),
                                       Binary("&", Unary("~", a), Unary("~", b)))
    ELSE IF r = "-&" THEN Unary("~", Binary("&", a, b))
    ELSE ValueError(r)

\* Variant: an unknown operator is rebuilt instead of raising.
BinaryUnknownKept(r, a, b) ==
    IF r = "->" THEN Binary("|", Unary("~", a), b)
    ELSE IF r = "+" THEN Binary("|", Binary("&", a, Unary("~", b)),
                                     Binary("&", Unary("~", a), b))
    ELSE IF r = "<->" THEN Binary("|", Binary("&", a, b),
                                       Binary("&", Unary("~", a), Unary("~", b)))
    ELSE IF r = "-&" THEN Unary("~", Binary("&", a, b))
    ELSE IF r = "-|" THEN Unary("~", Binary("|", a, b))
    ELSE Binary(r, a, b)

\* Variant: '&' and '|' are rebuilt with their children swapped.
BinarySwapped(r, a, b) ==
    IF r = "&" \/ r = "|" THEN Binary(r, b, a)
    ELSE IF r = "->" THEN Binary("|", Unary("~", a), b)
    ELSE IF r = "+" THEN Binary("|", Binary("&", a, Unary("~", b)),
                                     Binary("&", Unary("~", a), b))
    ELSE IF r = "<->" THEN Binary("|", Binary("&", a, b),
                                       Binary("&", Unary("~", a), Unary("~", b)))
    ELSE IF r = "-&" THEN Unary("~", Binary("&", a, b))
    ELSE IF r = "-|" THEN Unary("~", Binary("|", a, b))
    ELSE ValueError(r)

BinaryToNotAndOr(r, a, b) ==
    IF r = "&" \/ r = "|" THEN Binary(r, a, b)
    ELSE IF r = "->" THEN Binary("|", Unary("~", a), b)
    ELSE IF r = "+" THEN Binary("|", Binary("&", a, Unary("~", b)),
                                     Binary("&", Unary("~", a), b))
    ELSE IF r = "<->" THEN Binary("|", Binary("&", a, b),
                                       Binary("&", Unary("~", a), Unary("~", b)))
    ELSE IF r = "-&" THEN Unary("~", Binary("&", a, b))
    ELSE IF r = "-|" THEN Unary("~", Binary("|", a, b))
    ELSE ValueError(r)

RECURSIVE to_not_and_or(_)
to_not_and_or(f) ==
    IF is_variable(f.root) THEN f
    ELSE IF is_constant(f.root) THEN ConstantToNotAndOr(f.root)
    ELSE IF is_unary(f.root) THEN
        LET x == to_not_and_or(f.first)
        IN  IF IsRaised(x) THEN x ELSE Unary("~", x)
    ELSE
        LET a == to_not_and_or(f.first)
        IN  IF IsRaised(a) THEN a
            ELSE LET b == to_not_and_or(f.second)
                 IN  IF IsRaised(b) THEN b
                     ELSE BinaryToNotAndOr(f.root, a, b)

(***************************************************************************)
(* to_not_and                                                              *)
(***************************************************************************)
\* Variant: De Morgan with a redundant double negation around it.
OrToNotAndPadded(left, right) ==
    Unary("~", Unary("~", Unary("~",
        Binary("&", Unary("~", left), Unary("~", right)))))

OrToNotAnd(left, right) ==
    Unary("~", Binary("&", Unary("~", left), Unary("~", right)))

RECURSIVE conv_not_and(_)
conv_not_and(g) ==
    IF is_variable(g.root) THEN g
    ELSE IF is_constant(g.root) THEN g
    ELSE IF is_unary(g.root) THEN
        LET x == conv_not_and(g.first)
        IN  IF IsRaised(x) THEN x ELSE Unary("~", x)
    ELSE IF g.root = "&" THEN
        LET a == conv_not_and(g.first)
        IN  IF IsRaised(a) THEN a
            ELSE LET b == conv_not_and(g.second)
                 IN  IF IsRaised(b) THEN b ELSE Binary("&", a, b)
    ELSE IF g.root = "|" THEN
        LET left == conv_not_and(g.first)
        IN  IF IsRaised(left) THEN left
            ELSE LET right == conv_not_and(g.second)
                 IN  IF IsRaised(right) THEN right
                     ELSE OrToNotAnd(left, right)
    ELSE ValueError(g.root)

to_not_and(f) ==
    LET g == to_not_and_or(f)
    IN  IF IsRaised(g) THEN g ELSE conv_not_and(g)

(***************************************************************************)
(* to_nand                                                                 *)
(***************************************************************************)
NotToNand(x) == Binary("-&", x, x)

\* Variant: the nand of x and y is not negated again.
AndAsSingleNand(x, y) == Binary("-&", x, y)

AndToNand(x, y) ==
    LET t == Binary("-&", x, y)
    IN  Binary("-&", t, t)

RECURSIVE conv_nand(_)
conv_nand(g) ==
    IF is_variable(g.root) THEN g
    ELSE IF is_constant(g.root) THEN g
    ELSE IF is_unary(g.root) THEN
        LET x == conv_nand(g.first)
        IN  IF IsRaised(x) THEN x ELSE NotToNand(x)
    ELSE IF g.root = "&" THEN
        LET x == conv_nand(g.first)
        IN  IF IsRaised(x) THEN x
            ELSE LET y == conv_nand(g.second)
                 IN  IF IsRaised(y) THEN y ELSE AndToNand(x, y)
    ELSE ValueError(g.root)

to_nand(f) ==
    LET g == to_not_and(f)
    IN  IF IsRaised(g) THEN g ELSE conv_nand(g)

(***************************************************************************)
(* to_implies_not                                                          *)
(***************************************************************************)
\* Variant: the '&' case is missing.
BinaryToImpliesNotOrOnly(r, a, b) ==
    IF r = "|" THEN Binary("->", Unary("~", a), b)
    ELSE ValueError(r)

BinaryToImpliesNot(r, a, b) ==
    IF r = "|" THEN Binary("->", Unary("~", a), b)
    ELSE IF r = "&" THEN Unary("~", Binary("->", a, Unary("~", b)))
    ELSE ValueError(r)

RECURSIVE conv_implies_not(_)
conv_implies_not(g) ==
    IF is_variable(g.root) THEN g
    ELSE IF is_constant(g.root) THEN g
    ELSE IF is_unary(g.root) THEN
        LET x == conv_implies_not(g.first)
        IN  IF IsRaised(x) THEN x ELSE Unary("~", x)
    ELSE
        LET a == conv_implies_not(g.first)
        IN  IF IsRaised(a) THEN a
            ELSE LET b == conv_implies_not(g.second)
                 IN  IF IsRaised(b) THEN b
                     ELSE BinaryToImpliesNot(g.root, a, b)

to_implies_not(f) ==
    LET g == to_not_and_or(f)
    IN  IF IsRaised(g) THEN g ELSE conv_implies_not(g)

(***************************************************************************)
(* to_implies_false                                                        *)
(***************************************************************************)
ConstantToImpliesFalse(g) ==
    IF g.root = "F" THEN g
    ELSE Binary("->", Leaf("F"), Leaf("F"))

\* Variant: the negation is kept.
NotKept(x) == Unary("~", x)

NotToImpliesFalse(x) == Binary("->", x, Leaf("F"))

\* Variant: '|' negates both operands.
BinaryOrBothNegated(r, a, b) ==
    IF r = "|" THEN Binary("->", Binary("->", a, Leaf("F")),
                                 Binary("->", b, Leaf("F")))
    ELSE IF r = "&" THEN
        Binary("->", Binary("->", a, Binary("->", b, Leaf("F"))), Leaf("F"))
    ELSE ValueError(r)

BinaryToImpliesFalse(r, a, b) ==
    IF r = "|" THEN Binary("->", Binary("->", a, Leaf("F")), b)
    ELSE IF r = "&" THEN
        Binary("->", Binary("->", a, Binary("->", b, Leaf("F"))), Leaf("F"))
    ELSE ValueError(r)

RECURSIVE conv_implies_false(_)
conv_implies_false(g) ==
    IF is_variable(g.root) THEN g
    ELSE IF is_constant(g.root) THEN ConstantToImpliesFalse(g)
    ELSE IF is_unary(g.root) THEN
        LET x == conv_implies_false(g.first)
        IN  IF IsRaised(x) THEN x ELSE NotToImpliesFalse(x)
    ELSE
        LET a == conv_implies_false(g.first)
        IN  IF IsRaised(a) THEN a
            ELSE LET b == conv_implies_false(g.second)
                 IN  IF IsRaised(b) THEN b
                     ELSE BinaryToImpliesFalse(g.root, a, b)

to_implies_false(f) ==
    LET g == to_not_and_or(f)
    IN  IF IsRaised(g) THEN g ELSE conv_implies_false(g)

(***************************************************************************)
(* Input trees                                                             *)
(***************************************************************************)
RECURSIVE TreesOfSize(_, _)
TreesOfSize(n, ops) ==
    IF n = 1 THEN {Leaf(r) : r \in Variables \cup Constants}
    ELSE {Unary("~", f) : f \in TreesOfSize(n - 1, ops)}
         \cup UNION {{Binary(r, f, g) : r \in ops,
                                        f \in TreesOfSize(k, ops),
                                        g \in TreesOfSize(n - 1 - k, ops)}
                     : k \in 1 .. (n - 2)}

\* formula is a tree of at most MaxNodes nodes with binary operators from ops.
Input(ops) ==
    \E n \in 1 .. MaxNodes :
        \/ n = 1 /\ formula \in TreesOfSize(1, ops)
        \/ n > 1 /\ \E f \in TreesOfSize(n - 1, ops) : formula = Unary("~", f)
        \/ \E k \in 1 .. (n - 2) :
              \E r \in ops, f \in TreesOfSize(k, ops), g \in TreesOfSize(n - 1 - k, ops) :
                  formula = Binary(r, f, g)

RECURSIVE WellFormed(_)
WellFormed(f) ==
    IF is_variable(f.root) \/ is_constant(f.root) THEN DOMAIN f = {"root"}
    ELSE IF is_unary(f.root) THEN
        DOMAIN f = {"root", "first"} /\ WellFormed(f.first)
    ELSE /\ DOMAIN f = {"root", "first", "second"}
         /\ f.root \in BinaryOps
         /\ WellFormed(f.first)
         /\ WellFormed(f.second)

NoResult == [none |-> TRUE]

(***************************************************************************)
(* The calls                                                               *)
(***************************************************************************)
Init ==
    /\ Input(BinaryOps)
    /\ called = "none"
    /\ result = NoResult

InitMalformed ==
    /\ Input(BinaryOps \cup UnknownOps)
    /\ ~WellFormed(formula)
    /\ called = "none"
    /\ result = NoResult

CallToNotAndOr ==
    /\ called = "none"
    /\ called' = "to_not_and_or"
    /\ result' = to_not_and_or(formula)
    /\ UNCHANGED formula

CallToNotAnd ==
    /\ called = "none"
    /\ called' = "to_not_and"
    /\ result' = to_not_and(formula)
    /\ UNCHANGED formula

CallToNand ==
    /\ called = "none"
    /\ called' = "to_nand"
    /\ result' = to_nand(formula)
    /\ UNCHANGED formula

CallToImpliesNot ==
    /\ called = "none"
    /\ called' = "to_implies_not"
    /\ result' = to_implies_not(formula)
    /\ UNCHANGED formula

CallToImpliesFalse ==
    /\ called = "none"
    /\ called' = "to_implies_false"
    /\ result' = to_implies_false(formula)
    /\ UNCHANGED formula

Next ==
    \/ CallToNotAndOr
    \/ CallToNotAnd
    \/ CallToNand
    \/ CallToImpliesNot
    \/ CallToImpliesFalse

Spec == Init /\ [][Next]_vars

SpecMalformed == InitMalformed /\ [][Next]_vars

(***************************************************************************)
(* Semantics and measures used to state the properties                     *)
(***************************************************************************)
Models == [Variables -> BOOLEAN]

RECURSIVE evaluate(_, _)
evaluate(f, model) ==
    IF is_variable(f.root) THEN model[f.root]
    ELSE IF is_constant(f.root) THEN f.root = "T"
    ELSE IF is_unary(f.root) THEN ~evaluate(f.first, model)
    ELSE LET a == evaluate(f.first, model)
             b == evaluate(f.second, model)
         IN  CASE f.root = "&" -> a /\ b
               [] f.root = "|" -> a \/ b
               [] f.root = "->" -> a => b
               [] f.root = "+" -> a # b
               [] f.root = "<->" -> a = b
               [] f.root = "-&" -> ~(a /\ b)
               [] f.root = "-|" -> ~(a \/ b)

\* The root symbols of all nodes of a tree.
RECURSIVE Roots(_)
Roots(f) ==
    {f.root}
    \cup (IF "first" \in DOMAIN f THEN Roots(f.first) ELSE {})
    \cup (IF "second" \in DOMAIN f THEN Roots(f.second) ELSE {})

\* Every node of the tree has its root symbol in S (a second child equal to
\* the first is scanned once).
RECURSIVE OnlyRoots(_, _)
OnlyRoots(f, S) ==
    /\ f.root \in S
    /\ "first" \in DOMAIN f => OnlyRoots(f.first, S)
    /\ ("second" \in DOMAIN f /\ f.second # f.first) => OnlyRoots(f.second, S)

\* The number of nodes of a tree, every occurrence of a subtree counted.
RECURSIVE Size(_)
Size(f) ==
    1 + (IF "first" \in DOMAIN f THEN Size(f.first) ELSE 0)
      + (IF "second" \in DOMAIN f THEN Size(f.second) ELSE 0)

\* The root symbols each reducer may leave in its output.
NotAndOrRoots == Variables \cup {"~", "&", "|"}
NotAndRoots == Variables \cup {"~", "&"}
NandRoots == Variables \cup {"-&"}
ImpliesNotRoots == Variables \cup {"->", "~"}
ImpliesFalseRoots == Variables \cup {"F", "->"}

Returned == called # "none" /\ ~IsRaised(result)

SameTruthTable(f, g) == \A model \in Models : evaluate(f, model) = evaluate(g, model)

TypeOK == called \in {"none", "to_not_and_or", "to_not_and", "to_nand",
                      "to_implies_not", "to_implies_false"}

(***************************************************************************)
(* Properties                                                              *)
(***************************************************************************)

\* C1: for every well-formed formula, whichever of the five reducers is
\* called, the returned formula evaluates to the same truth value as the
\* input under every assignment to the variables (the placeholder 'p'
\* included, also when 'p' occurs in the input next to a constant).
C1_SemanticEquivalence ==
    called # "none" => ~IsRaised(result) /\ SameTruthTable(formula, result)

C1_Witness ==
    /\ called = "to_nand"
    /\ formula = Binary("+", Leaf("p"), Unary("~", Leaf("T")))
    /\ Returned

\* C2: every node of to_not_and_or(formula) is a variable or has operator
\* '~', '&' or '|'.
C2_NotAndOrContainment ==
    called = "to_not_and_or" =>
        ~IsRaised(result) /\ OnlyRoots(result, NotAndOrRoots)

C2_Witness ==
    /\ called = "to_not_and_or"
    /\ formula = Binary("-|", Binary("<->", Leaf("q"), Leaf("T")), Leaf("F"))
    /\ Returned

\* C3: to_not_and(formula) uses only '~' and '&', to_nand(formula) only
\* '-&', to_implies_not(formula) only '->' and '~'; all leaves are
\* variables, also when the input contains T or F.
C3_ComposedContainment ==
    /\ called = "to_not_and" =>
          ~IsRaised(result) /\ OnlyRoots(result, NotAndRoots)
    /\ called = "to_nand" =>
          ~IsRaised(result) /\ OnlyRoots(result, NandRoots)
    /\ called = "to_implies_not" =>
          ~IsRaised(result) /\ OnlyRoots(result, ImpliesNotRoots)

C3_Witness ==
    /\ called = "to_nand"
    /\ formula = Binary("|", Leaf("T"), Binary("->", Leaf("q"), Leaf("F")))
    /\ Returned

\* C4: every node of to_implies_false(formula) is a variable, the constant
\* F or a binary '->' node.
C4_ImpliesFalseContainment ==
    called = "to_implies_false" =>
        ~IsRaised(result) /\ OnlyRoots(result, ImpliesFalseRoots)

C4_Witness ==
    /\ called = "to_implies_false"
    /\ formula = Binary("&", Unary("~", Leaf("T")), Leaf("q"))
    /\ Returned
    /\ "F" \in Roots(result)

\* C5: on well-formed input each of the five reducers returns a formula
\* and never raises 'Unknown operator'.
C5_Totality ==
    called # "none" => ~IsRaised(result) /\ "root" \in DOMAIN result

C5_Witness ==
    /\ called = "to_implies_not"
    /\ formula = Binary("<->", Binary("-&", Leaf("p"), Leaf("F")), Leaf("q"))
    /\ Returned

\* C6: if the input tree contains a binary node with an operator symbol
\* outside the known set, each of the five reducers raises the
\* unrecognized-operator error and returns no formula, wherever that node
\* occurs.
C6_MalformedRaises ==
    called # "none" =>
        IsRaised(result) /\ result.raised = "ValueError" /\ result.msg \in UnknownOps

C6_Witness ==
    /\ called = "to_implies_false"
    /\ formula = Binary("&", Leaf("p"), Binary("^", Leaf("q"), Leaf("T")))
    /\ IsRaised(result)

\* C7 (as stated): to_implies_false of the single constant T returns
\* exactly (F->F).
C7_Original ==
    (called = "to_implies_false" /\ formula = Leaf("T")) =>
        result = Binary("->", Leaf("F"), Leaf("F"))

\* C7 (amended): to_implies_false of the single constant T returns exactly
\* ((p->F)->(p->F)), the second-pass image of (p|~p).
C7_Amended ==
    (called = "to_implies_false" /\ formula = Leaf("T")) =>
        result = Binary("->", Binary("->", Leaf("p"), Leaf("F")),
                              Binary("->", Leaf("p"), Leaf("F")))

C7_Witness == called = "to_implies_false" /\ formula = Leaf("T") /\ Returned

\* C8 (as stated): for each of the five reducers the output tree has at
\* most 8 times as many nodes as the input tree.
C8_Original ==
    called # "none" => ~IsRaised(result) /\ Size(result) <= 8 * Size(formula)

\* C8 (amended): for inputs with no '+' and no '<->' node, the outputs of
\* to_not_and_or, to_not_and and to_implies_not have at most 8 times as
\* many nodes as the input, and so has the output of to_implies_false when
\* the input also contains no constant F.
C8_Amended ==
    (/\ Roots(formula) \cap {"+", "<->"} = {}
     /\ \/ called \in {"to_not_and_or", "to_not_and", "to_implies_not"}
        \/ called = "to_implies_false" /\ "F" \notin Roots(formula))
    => ~IsRaised(result) /\ Size(result) <= 8 * Size(formula)

C8_Witness ==
    /\ called = "to_not_and"
    /\ formula = Leaf("T")
    /\ Returned
    /\ Size(result) = 7

\* C9 (as stated): to_implies_false((p-|q)) has the same truth table as
\* ((p->F)->(q->F)).
C9_Original ==
    (called = "to_implies_false" /\ formula = Binary("-|", Leaf("p"), Leaf("q"))) =>
        /\ ~IsRaised(result)
        /\ SameTruthTable(result,
               Binary("->", Binary("->", Leaf("p"), Leaf("F")),
                            Binary("->", Leaf("q"), Leaf("F"))))

\* C9 (amended): to_implies_false((p-|q)) returns (((p->F)->q)->F), which
\* has the same truth table as (p-|q): true exactly when p and q are both
\* false.
C9_Amended ==
    (called = "to_implies_false" /\ formula = Binary("-|", Leaf("p"), Leaf("q"))) =>
        /\ result = Binary("->", Binary("->", Binary("->", Leaf("p"), Leaf("F")),
                                              Leaf("q")),
                                 Leaf("F"))
        /\ \A model \in Models :
              evaluate(result, model) = (~model["p"] /\ ~model["q"])

C9_Witness ==
    /\ called = "to_implies_false"
    /\ formula = Binary("-|", Leaf("p"), Leaf("q"))
    /\ Returned

\* C10: to_not_and_or returns its input unchanged when the input has only
\* variables, '~', '&' and '|'; to_not_and returns its input unchanged when
\* the input has only variables, '~' and '&'; and applying either reducer
\* to its own output returns that output node for node.
C10_FixedPoint ==
    /\ called = "to_not_and_or" =>
          /\ ~IsRaised(result)
          /\ Roots(formula) \subseteq NotAndOrRoots => result = formula
          /\ to_not_and_or(result) = result
    /\ called = "to_not_and" =>
          /\ ~IsRaised(result)
          /\ Roots(formula) \subseteq NotAndRoots => result = formula
          /\ to_not_and(result) = result

C10_Witness ==
    /\ called = "to_not_and_or"
    /\ formula = Unary("~", Binary("|", Leaf("p"), Unary("~", Leaf("q"))))
    /\ result = formula
====
